---- MODULE Spec2Model ----
(***************************************************************************)
(* Request lifecycle and state orchestration of the notebook-lm frontend:  *)
(* the HTTP gateway (services/api.ts), the persistent store                *)
(* (utils/storage), the response cache, and the auth, session and chat     *)
(* providers.  One step of the model is one turn of the browser event      *)
(* loop: a user-facing call up to its first await, or the arrival of one   *)
(* response together with every promise continuation it resumes.           *)
(***************************************************************************)
EXTENDS Integers, Sequences, FiniteSets, TLC

VARIABLES
  localStorage,   \* window.localStorage: key -> <<>> (absent) or <<value>>
  apiCache,       \* the response cache: cache key -> body
  toasts,         \* notices surfaced with toast.error, oldest first
  location,       \* window.location.href
  requests,       \* every request handed to the network, in send order
  calls,          \* every apiClient.get / apiClient.post invocation
  auth,           \* AuthProvider state
  session,        \* SessionProvider state
  chat,           \* ChatProvider state
  now,            \* Date.now()
  checkExpiration,\* the interval of the session expiry check, when one is set
  ghost,          \* history the properties refer to; the program never reads it
  lastOp          \* the last provider call that returned at its guard

vars == <<localStorage, apiCache, toasts, location, requests, calls,
          auth, session, chat, now, checkExpiration, ghost, lastOp>>

-----------------------------------------------------------------------------
(* Bounds *)

MaxReq == 5       \* requests ever handed to the network
MaxCalls == 2     \* apiClient.get / apiClient.post invocations
MaxTime == 4      \* the clock stops here
MaxPanelTime == 3 \* the clock stops here while the side panel is explored

-----------------------------------------------------------------------------
(* Values *)

None == <<>>
Some(v) == <<v>>

Null == "null"                 \* the JSON value null
Tokens == {"t1", "t2"}
UserOf(tok) == IF tok = "t1" THEN [user_id |-> "u1", username |-> "ann"]
               ELSE [user_id |-> "u2", username |-> "bob"]
Users == {UserOf(t) : t \in Tokens}

NoParams == "undefined"
Params == {NoParams, "p1"}

NoResponse == 0                \* error.response is undefined
ErrorStatuses == {400, 403, 404, 500}

AuthMeUrl == <<"auth", "me">>
AuthLoginUrl == <<"auth", "login">>
ChatQueryUrl == <<"v1", "chat", "query">>
ChatQueryFeedbackUrl == <<"v1", "chat", "query", "feedback">>
AdminStatsUrl == <<"api", "admin", "stats">>
AuthSignupUrl == <<"auth", "signup">>
SessionCreateUrl == <<"session", "create">>
IngestFileUrl == <<"ingest", "file">>
IngestUrlUrl == <<"ingest", "url">>
ChatQueryPattern == <<"chat", "query">>
ApiUrls == {ChatQueryUrl, ChatQueryFeedbackUrl, AdminStatsUrl}

\* String.prototype.includes on paths, segment by segment
Includes(url, pat) ==
  \E i \in 0..(Len(url) - Len(pat)) : SubSeq(url, i + 1, i + Len(pat)) = pat

-----------------------------------------------------------------------------
(* Persistent key-value store *)

TOKEN_KEY == "notebook_lm_token"
USER_KEY == "notebook_lm_user"
SESSION_KEY == "notebook_lm_session"
PREFERENCES_KEY == "notebook_lm_preferences"
MESSAGES_KEY == "notebook_lm_messages"
HISTORY_KEY == "notebook_lm_conversation_history"
THEME_KEY == "intellisense-theme"

STORAGE_KEYS == {TOKEN_KEY, USER_KEY, SESSION_KEY, PREFERENCES_KEY,
                 MESSAGES_KEY, HISTORY_KEY}
AllKeys == STORAGE_KEYS \cup {THEME_KEY}

getItem(ls, k) == ls[k]
setItem(ls, k, v) == [ls EXCEPT ![k] = Some(v)]
removeItem(ls, k) == [ls EXCEPT ![k] = None]

getToken(ls) == getItem(ls, TOKEN_KEY)
getUser(ls) == getItem(ls, USER_KEY)
getSessionId(ls) == getItem(ls, SESSION_KEY)
getPreferences(ls) == getItem(ls, PREFERENCES_KEY)
getMessages(ls) == getItem(ls, MESSAGES_KEY)

clearAll(ls) == [k \in DOMAIN ls |-> IF k \in STORAGE_KEYS THEN None ELSE ls[k]]

-----------------------------------------------------------------------------
(* Response cache *)

generateKey(url, params) == <<url, params>>
EmptyCache == [k \in {} |-> Null]
cacheGet(c, k) == IF k \in DOMAIN c THEN c[k] ELSE Null
cacheSet(c, k, v) == [x \in (DOMAIN c) \cup {k} |-> IF x = k THEN v ELSE c[x]]
cacheDelete(c, k) == [x \in (DOMAIN c) \ {k} |-> c[x]]
cacheClear(c) == EmptyCache

-----------------------------------------------------------------------------
(* The whole program state as one record, so that a handler is a function
   from state to state and handlers compose within one event-loop turn *)

State ==
  [ls |-> localStorage, cache |-> apiCache, toasts |-> toasts,
   location |-> location, requests |-> requests, calls |-> calls,
   auth |-> auth, session |-> session, chat |-> chat, ghost |-> ghost,
   timer |-> checkExpiration,
   \* effect dependencies that got a new value in this turn
   deps |-> [user |-> FALSE, expiresAt |-> FALSE]]

Apply(W) ==
  /\ localStorage' = W.ls
  /\ apiCache' = W.cache
  /\ toasts' = W.toasts
  /\ location' = W.location
  /\ requests' = W.requests
  /\ calls' = W.calls
  /\ auth' = W.auth
  /\ session' = W.session
  /\ chat' = W.chat
  /\ ghost' = W.ghost
  /\ checkExpiration' = W.timer

-----------------------------------------------------------------------------
(* HTTP gateway: interceptors *)

SessionExpiredText == "Your session has expired. Please login again."
ForbiddenText == "You don't have permission to access this resource."
ValidationText == "Please check your input and try again."
ServerErrorText == "Something went wrong. Please try again."
UnexpectedText == "An unexpected error occurred."
NoConnectionText == "No internet connection. Please check your network."

Config(kind, method, url, params, hdr, body, cause, call) ==
  [kind |-> kind, method |-> method, url |-> url, params |-> params,
   auth |-> hdr, body |-> body, cause |-> cause, call |-> call,
   state |-> "inflight", status |-> NoResponse, data |-> None,
   stored |-> None, log |-> <<>>, list |-> <<>>]

\* mutant: the interceptor attaches nothing
RequestInterceptorMut(config, ls) == config

\* request interceptor: the Authorization header is overwritten with the
\* stored token when there is one, and left as the caller set it otherwise
RequestInterceptor(config, ls) ==
  IF getToken(ls) # None THEN [config EXCEPT !.auth = getToken(ls)] ELSE config

\* this.client(config): interceptor, then the request is on the network;
\* `stored` remembers the credential persisted at that moment; for the
\* request of sendMessage `log` remembers the message log as it was then, and
\* for the request of an upload or a registration `list` the list it works on
ClientRequest(W, config) ==
  LET op == IF config.kind = "call" THEN W.calls[config.call].op ELSE "none"
  IN [W EXCEPT !.requests =
        Append(@, [RequestInterceptor(config, W.ls)
                     EXCEPT !.stored = getToken(W.ls),
                            !.log = IF op = "sendMessage" THEN W.chat.messages
                                    ELSE <<>>,
                            !.list = CASE op = "addFile" -> W.chat.files
                                       [] op = "addWebSource" -> W.chat.webSources
                                       [] op = "addYouTubeSource" ->
                                            W.chat.youtubeSources
                                       [] OTHER -> <<>>])]

Toast(W, rid, text) ==
  [W EXCEPT !.toasts = Append(@, [req |-> rid, text |-> text])]

\* mutant: the clear-and-redirect block forgets the cache
SessionExpiredMut(W, rid) ==
  [W EXCEPT !.ls = clearAll(@),
            !.toasts = Append(@, [req |-> rid, text |-> SessionExpiredText]),
            !.location = "/login"]

\* the clear-and-redirect block of the 401 handler
SessionExpired(W, rid) ==
  [W EXCEPT !.ls = clearAll(@),
            !.cache = cacheClear(@),
            !.toasts = Append(@, [req |-> rid, text |-> SessionExpiredText]),
            !.location = "/login",
            !.ghost.returned = EmptyCache]

\* mutant: single-flight refresh, a 401 that finds a verification in flight
\* issues none of its own
refreshTokenMut(W, rid) ==
  IF getToken(W.ls) = None
  THEN SessionExpired(W, rid)
  ELSE IF \E v \in 1..Len(W.requests) :
            W.requests[v].kind = "verify" /\ W.requests[v].state = "inflight"
       THEN W
       ELSE ClientRequest(W, Config("verify", "GET", AuthMeUrl, NoParams,
                                    getToken(W.ls), None, rid, 0))

\* refreshToken up to its await; without a token it returns false at once
\* and the handler's then-branch clears and redirects in the same turn
refreshToken(W, rid) ==
  IF getToken(W.ls) = None
  THEN SessionExpired(W, rid)
  ELSE ClientRequest(W, Config("verify", "GET", AuthMeUrl, NoParams,
                               getToken(W.ls), None, rid, 0))

\* the notice of a non-401 failure
ErrorNotice(status, data) ==
  CASE status = 403 -> ForbiddenText
    [] status = 400 -> IF data # None THEN data[1] ELSE ValidationText
    [] status = 500 -> ServerErrorText
    [] status = NoResponse -> NoConnectionText
    [] OTHER -> UnexpectedText

\* mutant: 403 falls into the 401 case
ErrorInterceptorMut(W, rid, status, data) ==
  IF status \in {401, 403} THEN refreshToken(W, rid)
  ELSE Toast(W, rid, ErrorNotice(status, data))

\* response interceptor, rejected side, up to `return Promise.reject(error)`
ErrorInterceptor(W, rid, status, data) ==
  IF status = 401 THEN refreshToken(W, rid)
  ELSE Toast(W, rid, ErrorNotice(status, data))

\* the then-branch of a successful refresh: the original request is sent
\* again, its header refreshed from the store
RetryOriginal(W, orig) ==
  LET originalRequest == W.requests[orig]
      token == getToken(W.ls)
  IN ClientRequest(W, Config("retry", originalRequest.method,
                             originalRequest.url, originalRequest.params,
                             IF token # None THEN token
                             ELSE originalRequest.auth,
                             originalRequest.body, orig, 0))

-----------------------------------------------------------------------------
(* Auth and session providers *)

authInitialState(ls) ==
  [user |-> getUser(ls), token |-> getToken(ls),
   isAuthenticated |-> getToken(ls) # None, isLoading |-> FALSE]

authReducer(state, action) ==
  CASE action.type = "LOGIN_START" -> [state EXCEPT !.isLoading = TRUE]
    [] action.type = "LOGIN_SUCCESS" ->
         [state EXCEPT !.user = Some(action.payload.user),
                       !.token = Some(action.payload.token),
                       !.isAuthenticated = TRUE, !.isLoading = FALSE]
    [] action.type \in {"LOGIN_FAILURE", "LOGOUT"} ->
         [state EXCEPT !.user = None, !.token = None,
                       !.isAuthenticated = FALSE, !.isLoading = FALSE]
    [] action.type = "SET_LOADING" -> [state EXCEPT !.isLoading = action.payload]
    [] OTHER -> state

\* dispatch; LOGIN_SUCCESS puts a new user object into the state
AuthDispatch(W, action) ==
  [W EXCEPT !.auth = authReducer(@, action),
            !.deps.user = @ \/ action.type = "LOGIN_SUCCESS"]

sessionInitialState(ls) ==
  [sessionId |-> getSessionId(ls), expiresAt |-> None, isLoading |-> FALSE]

\* the clock counts half check intervals: setInterval(..., 60000)
CheckInterval == 2

\* sessionReducer at clock t
sessionReducer(state, action, t) ==
  CASE action.type = "CREATE_SESSION_START" -> [state EXCEPT !.isLoading = TRUE]
    [] action.type = "CREATE_SESSION_SUCCESS" ->
         [state EXCEPT !.sessionId = Some(action.payload.sessionId),
                       !.expiresAt = Some(t + action.payload.expiresInSeconds),
                       !.isLoading = FALSE]
    [] action.type = "CREATE_SESSION_FAILURE" -> [state EXCEPT !.isLoading = FALSE]
    [] action.type = "CLEAR_SESSION" ->
         [state EXCEPT !.sessionId = None, !.expiresAt = None,
                       !.isLoading = FALSE]
    [] action.type = "SET_LOADING" -> [state EXCEPT !.isLoading = action.payload]
    [] OTHER -> state

\* dispatch; a success makes a new Date, a clear replaces a Date by null
SessionDispatch(W, action) ==
  [W EXCEPT !.session = sessionReducer(@, action, now),
            !.deps.expiresAt =
               \/ @
               \/ action.type = "CREATE_SESSION_SUCCESS"
               \/ (action.type = "CLEAR_SESSION" /\ W.session.expiresAt # None)]

\* mutant: the whole store is cleared with the session
clearSessionAllMut(W) ==
  SessionDispatch([W EXCEPT !.ls = clearAll(@)], [type |-> "CLEAR_SESSION"])

\* mutant: the session is cleared in memory only
clearSessionMut(W) == SessionDispatch(W, [type |-> "CLEAR_SESSION"])

clearSession(W) ==
  SessionDispatch([W EXCEPT !.ls = removeItem(@, SESSION_KEY)],
                  [type |-> "CLEAR_SESSION"])

\* mutant: a failed creation drops the session that was held
CreateSessionSettledMut(W, result) ==
  IF result.ok
  THEN LET response == result.value
       IN SessionDispatch(
            [W EXCEPT !.ls = setItem(@, SESSION_KEY, response.session_id)],
            [type |-> "CREATE_SESSION_SUCCESS",
             payload |-> [sessionId |-> response.session_id,
                          expiresInSeconds |-> response.expires_in_seconds]])
  ELSE SessionDispatch(W, [type |-> "CLEAR_SESSION"])

\* createSession after its await
CreateSessionSettled(W, result) ==
  IF result.ok
  THEN LET response == result.value
       IN SessionDispatch(
            [W EXCEPT !.ls = setItem(@, SESSION_KEY, response.session_id)],
            [type |-> "CREATE_SESSION_SUCCESS",
             payload |-> [sessionId |-> response.session_id,
                          expiresInSeconds |-> response.expires_in_seconds]])
  ELSE SessionDispatch(W, [type |-> "CREATE_SESSION_FAILURE"])

-----------------------------------------------------------------------------
(* Chat provider: messages, reducer *)

defaultPreferences ==
  [response_style |-> "concise", max_length |-> 300, domain |-> "general",
   model_name |-> "llama-3.1-8b-instant", allow_agentic |-> FALSE]

ErrorContent ==
  "Sorry, I encountered an error processing your request. Please try again."

\* JSON.parse(JSON.stringify(messages)): a Date comes back as its ISO string
JsonMessage(m) ==
  [m EXCEPT !.timestamp = IF @[1] = "Date" THEN <<"iso", @[2]>> ELSE @]
JsonMessages(ms) == [i \in 1..Len(ms) |-> JsonMessage(ms[i])]

Message(prefix, role, content, t, metadata) ==
  [id |-> <<prefix, t>>, role |-> role, content |-> content,
   timestamp |-> <<"Date", t>>, metadata |-> metadata]

userMessage(query, t) == Message("user", "user", query, t, None)

\* mutant: the metadata lose the warnings of the response
assistantMessageMut(response, t) ==
  Message("assistant", "assistant", response.answer, t,
          Some([confidence |-> response.confidence,
                warnings |-> <<>>,
                citations |-> response.citations,
                used_chunk_ids |-> response.used_chunk_ids,
                retrieval_trace |-> response.retrieval_trace,
                trace_id |-> response.trace_id,
                latency_ms |-> response.latency_ms]))

assistantMessage(response, t) ==
  Message("assistant", "assistant", response.answer, t,
          Some([confidence |-> response.confidence,
                warnings |-> response.warnings,
                citations |-> response.citations,
                used_chunk_ids |-> response.used_chunk_ids,
                retrieval_trace |-> response.retrieval_trace,
                trace_id |-> response.trace_id,
                latency_ms |-> response.latency_ms]))

errorMessage(t) == Message("error", "assistant", ErrorContent, t, None)

getInitialState(ls) ==
  [messages |-> IF getMessages(ls) # None THEN getMessages(ls)[1] ELSE <<>>,
   currentQuery |-> <<>>,
   isLoading |-> FALSE,
   activeTab |-> "myfiles",
   preferences |-> IF getPreferences(ls) # None THEN getPreferences(ls)[1]
                   ELSE defaultPreferences,
   sessionId |-> None,
   files |-> <<>>, webSources |-> <<>>, youtubeSources |-> <<>>]

\* { ...state.preferences, ...action.payload }
Merge(preferences, payload) ==
  [k \in DOMAIN preferences \cup DOMAIN payload |->
     IF k \in DOMAIN payload THEN payload[k] ELSE preferences[k]]

\* JSON.parse(JSON.stringify(preferences)): a field whose value is undefined
\* (only model_name may be) is not written
Undefined == "undefined"
JsonPreferences(preferences) ==
  IF "model_name" \in DOMAIN preferences /\ preferences.model_name = Undefined
  THEN [k \in DOMAIN preferences \ {"model_name"} |-> preferences[k]]
  ELSE preferences

ArrayIncludes(list, x) == \E i \in 1..Len(list) : list[i] = x

\* mutant: a source is appended whether or not the list has it
AddSourceMut(list, url) == Append(list, url)

\* ADD_WEB_SOURCE / ADD_YOUTUBE_SOURCE
AddSource(list, url) == IF ArrayIncludes(list, url) THEN list ELSE Append(list, url)

\* REMOVE_WEB_SOURCE / REMOVE_YOUTUBE_SOURCE
RemoveSource(list, url) == SelectSeq(list, LAMBDA x : x # url)

\* chatReducer with the store writes it performs
\* mutant: the log is written as it was before the append
setMessagesMut(ls, messages) ==
  setItem(ls, MESSAGES_KEY,
          JsonMessages(SubSeq(messages, 1, Len(messages) - 1)))

\* Storage.setMessages: the log is written as JSON
setMessages(ls, messages) == setItem(ls, MESSAGES_KEY, JsonMessages(messages))

chatReducer(W, action) ==
  CASE action.type = "ADD_MESSAGE" ->
         LET newMessages == Append(W.chat.messages, action.payload)
         IN [W EXCEPT !.ls = setMessages(@, newMessages),
                      !.chat.messages = newMessages]
    [] action.type = "SET_CURRENT_QUERY" ->
         [W EXCEPT !.chat.currentQuery = action.payload]
    [] action.type = "SET_LOADING" ->
         [W EXCEPT !.chat.isLoading = action.payload]
    [] action.type = "SET_SESSION_ID" ->
         [W EXCEPT !.chat.sessionId = action.payload]
    [] action.type = "CLEAR_HISTORY" ->
         [W EXCEPT !.ls = removeItem(@, MESSAGES_KEY),
                   !.chat.messages = <<>>, !.chat.currentQuery = <<>>]
    [] action.type = "UPDATE_PREFERENCES" ->
         LET newPreferences == Merge(W.chat.preferences, action.payload)
         IN [W EXCEPT !.ls = setItem(@, PREFERENCES_KEY,
                                     JsonPreferences(newPreferences)),
                      !.chat.preferences = newPreferences]
    [] action.type = "ADD_FILE" ->
         [W EXCEPT !.chat.files = Append(@, action.payload)]
    [] action.type = "REMOVE_FILE" ->
         [W EXCEPT !.chat.files = SelectSeq(@, LAMBDA f : f.id # action.payload)]
    [] action.type = "ADD_WEB_SOURCE" ->
         [W EXCEPT !.chat.webSources = AddSource(@, action.payload)]
    [] action.type = "REMOVE_WEB_SOURCE" ->
         [W EXCEPT !.chat.webSources = RemoveSource(@, action.payload)]
    [] action.type = "ADD_YOUTUBE_SOURCE" ->
         [W EXCEPT !.chat.youtubeSources = AddSource(@, action.payload)]
    [] action.type = "REMOVE_YOUTUBE_SOURCE" ->
         [W EXCEPT !.chat.youtubeSources = RemoveSource(@, action.payload)]
    [] OTHER -> W

\* the effect that copies the session id into the chat state after a render
SessionEffect(W) ==
  IF W.chat.sessionId # W.session.sessionId
  THEN chatReducer(W, [type |-> "SET_SESSION_ID", payload |-> W.session.sessionId])
  ELSE W

\* String.prototype.trim on a query (a sequence of characters)
RECURSIVE TrimLeft(_)
TrimLeft(q) == IF q # <<>> /\ Head(q) = " " THEN TrimLeft(Tail(q)) ELSE q
RECURSIVE TrimRight(_)
TrimRight(q) ==
  IF q # <<>> /\ q[Len(q)] = " " THEN TrimRight(SubSeq(q, 1, Len(q) - 1)) ELSE q
Trim(q) == TrimRight(TrimLeft(q))

\* mutant: the guard tests the query without trimming it
SendGuardMut(W, query) ==
  W.auth.user # None /\ W.session.sessionId # None /\ query # <<>>

\* the guard of sendMessage
SendGuard(W, query) ==
  W.auth.user # None /\ W.session.sessionId # None /\ Trim(query) # <<>>

-----------------------------------------------------------------------------
(* What resumes when an apiClient call settles *)

\* mutant: the answer is put at the head of the log
SendMessageSettledHeadMut(W, result) ==
  LET message == IF result.ok THEN assistantMessage(result.value, now)
                 ELSE errorMessage(now)
      newMessages == <<message>> \o W.chat.messages
  IN chatReducer([W EXCEPT !.ls = setMessages(@, newMessages),
                           !.chat.messages = newMessages],
                 [type |-> "SET_LOADING", payload |-> FALSE])

\* mutant: a settlement that finds the user logged out is dropped
SendMessageSettledAbortMut(W, result) ==
  IF W.auth.user = None THEN W
  ELSE chatReducer(chatReducer(W, [type |-> "ADD_MESSAGE",
                                   payload |-> IF result.ok
                                               THEN assistantMessage(result.value, now)
                                               ELSE errorMessage(now)]),
                   [type |-> "SET_LOADING", payload |-> FALSE])

\* mutant: the loading flag is reset at the end of the try block only
SendMessageSettledMut(W, result) ==
  IF result.ok
  THEN chatReducer(chatReducer(W, [type |-> "ADD_MESSAGE",
                                   payload |-> assistantMessage(result.value, now)]),
                   [type |-> "SET_LOADING", payload |-> FALSE])
  ELSE chatReducer(W, [type |-> "ADD_MESSAGE", payload |-> errorMessage(now)])

\* sendMessage after its await: the try tail or the catch, then the finally
SendMessageSettled(W, result) ==
  LET appended ==
        IF result.ok
        THEN chatReducer(W, [type |-> "ADD_MESSAGE",
                             payload |-> assistantMessage(result.value, now)])
        ELSE chatReducer(W, [type |-> "ADD_MESSAGE",
                             payload |-> errorMessage(now)])
  IN chatReducer(appended, [type |-> "SET_LOADING", payload |-> FALSE])

\* mutant: a successful login persists the token without the user
LoginSettledMut(W, result) ==
  IF result.ok
  THEN LET response == result.value
           user == [user_id |-> response.user_id, username |-> response.username]
       IN AuthDispatch(
            [W EXCEPT !.ls = setItem(@, TOKEN_KEY, response.token)],
            [type |-> "LOGIN_SUCCESS",
             payload |-> [user |-> user, token |-> response.token]])
  ELSE AuthDispatch(W, [type |-> "LOGIN_FAILURE"])

\* login after its await
LoginSettled(W, result) ==
  IF result.ok
  THEN LET response == result.value
           user == [user_id |-> response.user_id, username |-> response.username]
       IN AuthDispatch(
            [W EXCEPT !.ls = setItem(setItem(@, TOKEN_KEY, response.token),
                                     USER_KEY, user)],
            [type |-> "LOGIN_SUCCESS",
             payload |-> [user |-> user, token |-> response.token]])
  ELSE AuthDispatch(W, [type |-> "LOGIN_FAILURE"])

\* mutant: a failed upload leaves the list as it is
AddFileSettledMut(W, c) ==
  LET newFile == c.env[1].newFile
      removed == chatReducer(W, [type |-> "REMOVE_FILE", payload |-> newFile.id])
  IN IF c.result[1].ok
     THEN chatReducer(removed,
            [type |-> "ADD_FILE",
             payload |-> [newFile EXCEPT !.id = c.result[1].value.document_id,
                                         !.status = "complete"]])
     ELSE W

\* addFile after its await: the temporary entry is replaced
AddFileSettled(W, c) ==
  LET newFile == c.env[1].newFile
      removed == chatReducer(W, [type |-> "REMOVE_FILE", payload |-> newFile.id])
  IN IF c.result[1].ok
     THEN chatReducer(removed,
            [type |-> "ADD_FILE",
             payload |-> [newFile EXCEPT !.id = c.result[1].value.document_id,
                                         !.status = "complete"]])
     ELSE chatReducer(removed,
            [type |-> "ADD_FILE",
             payload |-> [newFile EXCEPT !.status = "error"]])

\* mutant: a failed registration is not rolled back
AddWebSourceSettledMut(W, c) == W

\* addWebSource / addYouTubeSource after the await: the catch block
AddWebSourceSettled(W, c) ==
  IF c.result[1].ok THEN W
  ELSE chatReducer(W, [type |-> "REMOVE_WEB_SOURCE", payload |-> c.env[1].url])

AddYouTubeSourceSettled(W, c) ==
  IF c.result[1].ok THEN W
  ELSE chatReducer(W, [type |-> "REMOVE_YOUTUBE_SOURCE", payload |-> c.env[1].url])

\* signup after its await
SignupSettled(W, result) ==
  IF result.ok
  THEN LET response == result.value
           user == [user_id |-> response.user_id, username |-> response.username]
       IN AuthDispatch(
            [W EXCEPT !.ls = setItem(setItem(@, TOKEN_KEY, response.token),
                                     USER_KEY, user)],
            [type |-> "LOGIN_SUCCESS",
             payload |-> [user |-> user, token |-> response.token]])
  ELSE AuthDispatch(W, [type |-> "LOGIN_FAILURE"])

\* mutant: a failed verification logs out in memory and keeps the store
VerifyTokenSettledMut(W, c) ==
  LET settled ==
        IF c.result[1].ok
        THEN AuthDispatch(W, [type |-> "LOGIN_SUCCESS",
                              payload |-> [user |-> c.result[1].value,
                                           token |-> c.env[1].token]])
        ELSE AuthDispatch(W, [type |-> "LOGOUT"])
  IN AuthDispatch(settled, [type |-> "SET_LOADING", payload |-> FALSE])

\* verifyToken after its await: the try tail or the catch, then the finally
VerifyTokenSettled(W, c) ==
  LET settled ==
        IF c.result[1].ok
        THEN AuthDispatch(W, [type |-> "LOGIN_SUCCESS",
                              payload |-> [user |-> c.result[1].value,
                                           token |-> c.env[1].token]])
        ELSE AuthDispatch([W EXCEPT !.ls = clearAll(@)], [type |-> "LOGOUT"])
  IN AuthDispatch(settled, [type |-> "SET_LOADING", payload |-> FALSE])

Resume(W, cid) ==
  LET c == W.calls[cid]
  IN CASE c.op = "sendMessage" -> SendMessageSettled(W, c.result[1])
       [] c.op = "login" -> LoginSettled(W, c.result[1])
       [] c.op = "signup" -> SignupSettled(W, c.result[1])
       [] c.op = "verifyToken" -> VerifyTokenSettled(W, c)
       [] c.op = "createSession" -> CreateSessionSettled(W, c.result[1])
       [] c.op = "addFile" -> AddFileSettled(W, c)
       [] c.op = "addWebSource" -> AddWebSourceSettled(W, c)
       [] c.op = "addYouTubeSource" -> AddYouTubeSourceSettled(W, c)
       [] OTHER -> W
\* the functions that rethrow what their await threw
Rethrows(op) == op \in {"api", "login", "signup", "createSession"}

\* how the promise of the calling function settles
Outcome(c) ==
  IF Rethrows(c.op) /\ ~c.result[1].ok THEN "rejected" ELSE "fulfilled"

Continue(W, cid) ==
  LET c == W.calls[cid]
      done == Resume(W, cid)
  IN [done EXCEPT !.calls[cid].outcome = Some(Outcome(c))]

-----------------------------------------------------------------------------
(* HTTP gateway: get and post *)

Call(fn, url, params, useCache, req, result, op) ==
  [fn |-> fn, url |-> url, params |-> params, useCache |-> useCache,
   req |-> req, result |-> result, op |-> op,
   at |-> now,          \* the clock when the call was made
   env |-> None,        \* what the calling function holds across its await
   outcome |-> None]    \* how the calling function's own promise settled

\* apiClient.get up to its await, or to its return on a cache hit
ApiGet(W, url, params, useCache, op) ==
  LET cacheKey == generateKey(url, params)
      cached == cacheGet(W.cache, cacheKey)
      cid == Len(W.calls) + 1
  IN IF useCache /\ cached # Null
     THEN Continue([W EXCEPT !.calls = Append(@,
                      Call("get", url, params, useCache, 0,
                           Some([ok |-> TRUE, value |-> cached]), op))], cid)
     ELSE ClientRequest(
            [W EXCEPT !.calls = Append(@,
               Call("get", url, params, useCache, Len(W.requests) + 1, None, op))],
            Config("call", "GET", url, params, None, None, 0, cid))

\* apiClient.post up to its await
ApiPost(W, url, body, op) ==
  LET cid == Len(W.calls) + 1
  IN ClientRequest(
       [W EXCEPT !.calls = Append(@,
          Call("post", url, NoParams, FALSE, Len(W.requests) + 1, None, op))],
       Config("call", "POST", url, NoParams, None, body, 0, cid))

\* the cache after apiClient.get resumes with a response
GetStore(cache, c, data) ==
  IF c.useCache THEN cacheSet(cache, generateKey(c.url, c.params), data)
  ELSE cache

\* mutant: post forgets the invalidation
PostInvalidateMut(cache, c) == cache

\* the cache after apiClient.post resumes with a response
PostInvalidate(cache, c) ==
  IF Includes(c.url, ChatQueryPattern)
  THEN cacheDelete(cache, generateKey(c.url, NoParams))
  ELSE cache

\* get/post after the await returned a response
ApiResolve(W, cid, data) ==
  LET c == W.calls[cid]
  IN Continue(
       [W EXCEPT !.cache = IF c.fn = "get" THEN GetStore(@, c, data)
                           ELSE PostInvalidate(@, c),
                 !.calls[cid].result = Some([ok |-> TRUE, value |-> data]),
                 !.ghost.returned = IF c.fn = "get" THEN GetStore(@, c, Some(data))
                                    ELSE PostInvalidate(@, c)],
       cid)

\* get/post when the await threw: the error goes on to the caller
ApiReject(W, cid, status) ==
  Continue([W EXCEPT !.calls[cid].result = Some([ok |-> FALSE, value |-> status])],
           cid)

\* who is resumed when the promise of request rid is fulfilled
Fulfil(W, rid, data) ==
  LET r == W.requests[rid]
  IN CASE r.kind = "call" -> ApiResolve(W, r.call, data)
       [] r.kind = "verify" -> RetryOriginal(W, r.cause)
       [] OTHER -> W

\* who is resumed when the promise of request rid is rejected
Reject(W, rid, status) ==
  LET r == W.requests[rid]
  IN CASE r.kind = "call" -> ApiReject(W, r.call, status)
       [] OTHER -> SessionExpired(W, r.cause)

Settled(W, rid, status, data) ==
  [W EXCEPT !.requests[rid].state = IF status = 200 THEN "ok" ELSE "err",
            !.requests[rid].status = status,
            !.requests[rid].data = data]

\* the turn in which the response of request rid arrives
OnResponse(W, rid, status, data) ==
  IF status = 200
  THEN Fulfil(Settled(W, rid, status, Some(data)), rid, data)
  ELSE Reject(ErrorInterceptor(Settled(W, rid, status, data), rid, status, data),
              rid, status)

-----------------------------------------------------------------------------
(* Provider functions *)

\* mutant: the history is the whole log, the user's messages included
chatRequestMut(W, query) ==
  [query |-> query,
   user_id |-> W.auth.user[1].user_id,
   session_id |-> W.session.sessionId[1],
   preferences |-> W.chat.preferences,
   conversation_history |->
     [i \in 1..Len(W.chat.messages) |-> W.chat.messages[i].content],
   allow_agentic |-> W.chat.preferences.allow_agentic,
   model_name |-> W.chat.preferences.model_name]

\* the ChatRequest built from the state of the render that made sendMessage
chatRequest(W, query) ==
  [query |-> query,
   user_id |-> W.auth.user[1].user_id,
   session_id |-> W.session.sessionId[1],
   preferences |-> W.chat.preferences,
   conversation_history |->
     LET assistant == SelectSeq(W.chat.messages, LAMBDA m : m.role = "assistant")
     IN [i \in 1..Len(assistant) |-> assistant[i].content],
   allow_agentic |-> W.chat.preferences.allow_agentic,
   model_name |-> W.chat.preferences.model_name]

\* mutant: the request is sent first and the user message appended after it
sendMessageMut(W, query) ==
  IF ~SendGuard(W, query) THEN W
  ELSE LET loading == chatReducer(W, [type |-> "SET_LOADING", payload |-> TRUE])
           cleared == chatReducer(loading,
                        [type |-> "SET_CURRENT_QUERY", payload |-> <<>>])
           sending == \E c \in 1..Len(W.calls) :
                        W.calls[c].op = "sendMessage" /\ W.calls[c].result = None
           posted == ApiPost([cleared EXCEPT !.ghost.overlapped = @ \/ sending],
                             ChatQueryUrl, Some(chatRequest(W, query)),
                             "sendMessage")
       IN chatReducer(posted,
                      [type |-> "ADD_MESSAGE", payload |-> userMessage(query, now)])

sendMessage(W, query) ==
  IF ~SendGuard(W, query) THEN W
  ELSE LET loading == chatReducer(W, [type |-> "SET_LOADING", payload |-> TRUE])
           cleared == chatReducer(loading,
                        [type |-> "SET_CURRENT_QUERY", payload |-> <<>>])
           added == chatReducer(cleared,
                      [type |-> "ADD_MESSAGE", payload |-> userMessage(query, now)])
           sending == \E c \in 1..Len(W.calls) :
                        W.calls[c].op = "sendMessage" /\ W.calls[c].result = None
       IN ApiPost([added EXCEPT !.ghost.overlapped = @ \/ sending],
                  ChatQueryUrl, Some(chatRequest(W, query)), "sendMessage")

\* mutant: the whole store is cleared with the history
clearHistoryMut(W) ==
  [chatReducer([W EXCEPT !.ghost.cleared = TRUE], [type |-> "CLEAR_HISTORY"])
     EXCEPT !.ls = clearAll(@)]

clearHistory(W) ==
  chatReducer([W EXCEPT !.ghost.cleared = TRUE], [type |-> "CLEAR_HISTORY"])

setCurrentQuery(W, query) ==
  chatReducer(W, [type |-> "SET_CURRENT_QUERY", payload |-> query])

\* mutant: the merged record is kept in memory but not written to the store
updatePreferencesMut(W, preferences) ==
  [W EXCEPT !.chat.preferences = Merge(@, preferences)]

updatePreferences(W, preferences) ==
  chatReducer(W, [type |-> "UPDATE_PREFERENCES", payload |-> preferences])

\* a provider call that awaits apiClient.post, with what it holds meanwhile
Awaiting(W, url, body, op, env) ==
  [ApiPost(W, url, Some(body), op) EXCEPT !.calls[Len(W.calls) + 1].env = Some(env)]

\* mutant: the upload is issued first and the temporary entry inserted after it
addFileMut(W, file) ==
  IF W.auth.user = None THEN W
  ELSE LET newFile == [id |-> <<"file", now>>, name |-> file.name,
                       type |-> file.type, size |-> file.size,
                       status |-> "uploading"]
       IN chatReducer(Awaiting(W, IngestFileUrl,
                               [file |-> file, user_id |-> W.auth.user[1].user_id],
                               "addFile", [newFile |-> newFile]),
                      [type |-> "ADD_FILE", payload |-> newFile])

addFile(W, file) ==
  IF W.auth.user = None THEN W
  ELSE LET newFile == [id |-> <<"file", now>>, name |-> file.name,
                       type |-> file.type, size |-> file.size,
                       status |-> "uploading"]
       IN Awaiting(chatReducer(W, [type |-> "ADD_FILE", payload |-> newFile]),
                   IngestFileUrl,
                   [file |-> file, user_id |-> W.auth.user[1].user_id],
                   "addFile", [newFile |-> newFile])

removeFile(W, fileId) ==
  chatReducer(W, [type |-> "REMOVE_FILE", payload |-> fileId])

addWebSource(W, url) ==
  IF W.auth.user = None THEN W
  ELSE Awaiting(chatReducer(W, [type |-> "ADD_WEB_SOURCE", payload |-> url]),
                IngestUrlUrl,
                [url |-> url, type |-> "web", user_id |-> W.auth.user[1].user_id],
                "addWebSource",
                \* dup: the list had the url when the function was called
                [url |-> url, dup |-> ArrayIncludes(W.chat.webSources, url)])

removeWebSource(W, url) ==
  chatReducer(W, [type |-> "REMOVE_WEB_SOURCE", payload |-> url])

addYouTubeSource(W, url) ==
  IF W.auth.user = None THEN W
  ELSE Awaiting(chatReducer(W, [type |-> "ADD_YOUTUBE_SOURCE", payload |-> url]),
                IngestUrlUrl,
                [url |-> url, type |-> "youtube",
                 user_id |-> W.auth.user[1].user_id],
                "addYouTubeSource",
                [url |-> url, dup |-> ArrayIncludes(W.chat.youtubeSources, url)])

removeYouTubeSource(W, url) ==
  chatReducer(W, [type |-> "REMOVE_YOUTUBE_SOURCE", payload |-> url])

createSession(W, userId, via) ==
  Awaiting(SessionDispatch(W, [type |-> "CREATE_SESSION_START"]),
           SessionCreateUrl, [user_id |-> userId], "createSession",
           [via |-> via])

refreshSession(W) ==
  IF W.auth.user # None
  THEN createSession(W, W.auth.user[1].user_id, "refreshSession")
  ELSE W

\* the effect on [isAuthenticated, user]
CreateSessionEffect(W) ==
  IF W.auth.isAuthenticated /\ W.auth.user # None /\ W.session.sessionId = None
  THEN createSession(W, W.auth.user[1].user_id, "effect")
  ELSE W

\* the effect on [state.expiresAt]: the old interval is cleared, and a new
\* one is set when there is an expiry date
ExpirationEffect(W) ==
  [W EXCEPT !.timer = IF W.session.expiresAt # None
                      THEN Some(now + CheckInterval) ELSE None]

ProtectedPath == "/app"

\* the effect of ProtectedRoute on [isAuthenticated, user, sessionId,
\* isLoading, createSession]; a rejection of createSession is caught here
ProtectedRouteEffect(W) ==
  IF /\ W.auth.isAuthenticated /\ W.auth.user # None
     /\ W.session.sessionId = None /\ ~W.auth.isLoading
  THEN createSession(W, W.auth.user[1].user_id, "route")
  ELSE W

\* the effects that run after the render that ends a turn, those of a child
\* before those of its parent; ProtectedRoute is rendered on a protected
\* path, and its effect runs (once) after the first render and after a
\* render with a new auth or session state
Effects(W) ==
  LET chatDone == SessionEffect(W)
      routed == IF /\ W.location = ProtectedPath
                   /\ (W.deps.user \/ W.auth # auth \/ W.session # session)
                THEN ProtectedRouteEffect(chatDone) ELSE chatDone
      created == IF W.deps.user THEN CreateSessionEffect(routed) ELSE routed
  IN IF W.deps.expiresAt THEN ExpirationEffect(created) ELSE created

\* the interval callback
checkExpirationCallback(W) ==
  IF W.session.expiresAt # None /\ now >= W.session.expiresAt[1]
  THEN clearSession([W EXCEPT !.ghost.expired = TRUE]) ELSE W

login(W, credentials) ==
  ApiPost(AuthDispatch(W, [type |-> "LOGIN_START"]), AuthLoginUrl,
          Some(credentials), "login")

\* mutant: the credential and the user are removed, the rest of the store stays
logoutMut(W) ==
  AuthDispatch([W EXCEPT !.ls = removeItem(removeItem(@, TOKEN_KEY), USER_KEY)],
               [type |-> "LOGOUT"])

logout(W) ==
  AuthDispatch([W EXCEPT !.ls = clearAll(@)], [type |-> "LOGOUT"])

\* AuthService.signup: const { confirmPassword, ...signupData } = credentials
signupData(credentials) ==
  [k \in DOMAIN credentials \ {"confirmPassword"} |-> credentials[k]]

signup(W, credentials) ==
  ApiPost(AuthDispatch(W, [type |-> "LOGIN_START"]), AuthSignupUrl,
          Some(signupData(credentials)), "signup")

\* the mount effect of AuthProvider
VerifyTokenEffect(W) ==
  LET token == getToken(W.ls)
  IN IF token = None THEN W
     ELSE [ApiGet(AuthDispatch(W, [type |-> "SET_LOADING", payload |-> TRUE]),
                  AuthMeUrl, NoParams, FALSE, "verifyToken")
             EXCEPT !.calls[Len(W.calls) + 1].env = Some([token |-> token[1]])]

-----------------------------------------------------------------------------
(* What the backend may answer *)

Bodies == {Null, "b1", "b2"}

ChatResponses ==
  {[answer |-> "a1", confidence |-> 82, warnings |-> <<>>,
    citations |-> <<"c1">>, used_chunk_ids |-> <<"k1">>,
    retrieval_trace |-> "trace1", trace_id |-> "id1", latency_ms |-> 450],
   [answer |-> "a2", confidence |-> 40, warnings |-> <<"w2">>,
    citations |-> <<>>, used_chunk_ids |-> <<"k2", "k3">>,
    retrieval_trace |-> "trace2", trace_id |-> "id2", latency_ms |-> 900]}

Credentials == {[username |-> UserOf(t).username] : t \in Tokens}

SignupCredentials ==
  {[username |-> c.username, confirmPassword |-> "pw"] : c \in Credentials}

AuthResponseFor(credentials) ==
  LET t == CHOOSE x \in Tokens : UserOf(x).username = credentials.username
  IN [user_id |-> UserOf(t).user_id, username |-> UserOf(t).username, token |-> t]

\* session lifetimes the backend grants, in clock units
ExpiresIn == {1, 2}

\* ids are strings, written as sequences like the temporary ids
DocumentIds == {<<"doc", 1>>, <<"doc", 2>>}

ResponseBodies(r) ==
  CASE r.url = AuthMeUrl -> IF r.auth # None THEN {UserOf(r.auth[1])} ELSE Users
    [] r.url = AuthLoginUrl -> {AuthResponseFor(r.body[1])}
    [] r.url = AuthSignupUrl -> {AuthResponseFor(r.body[1])}
    [] r.url = ChatQueryUrl /\ r.method = "POST" -> ChatResponses
    [] r.url = AdminStatsUrl -> {"stats"}
    [] r.url = SessionCreateUrl ->
         {[session_id |-> "s2", user_id |-> r.body[1].user_id,
           expires_in_seconds |-> ttl] : ttl \in ExpiresIn}
    [] r.url = IngestFileUrl -> {[document_id |-> d] : d \in DocumentIds}
    [] r.url = IngestUrlUrl -> {[document_id |-> <<"doc", 1>>]}
    [] OTHER -> Bodies

\* the body of an error response: with or without a message field
ErrorBodies == {None, Some("server message")}

Queries == {<<>>, <<" ", " ">>, <<" ", "h", "i">>}

\* what the user picks and types in the side panel
Files == {[name |-> "a.pdf", type |-> "application/pdf", size |-> 10],
          [name |-> "b.txt", type |-> "text/plain", size |-> 20]}
SourceUrls == {"https://x", "https://y"}
Partials == {[domain |-> "ai", allow_agentic |-> TRUE],
             [max_length |-> 500, model_name |-> Undefined]}

InFlight == {r \in 1..Len(requests) : requests[r].state = "inflight"}

-----------------------------------------------------------------------------
(* Start states *)

StoredLog ==
  JsonMessages(<<userMessage(<<"o", "l", "d">>, 0),
                 assistantMessage(CHOOSE x \in ChatResponses : x.answer = "a1", 0)>>)

Store(tok, sid, msgs) ==
  [k \in AllKeys |->
     CASE k = TOKEN_KEY -> tok
       [] k = USER_KEY -> IF tok = None THEN None ELSE Some(UserOf(tok[1]))
       [] k = SESSION_KEY -> sid
       [] k = MESSAGES_KEY -> msgs
       [] k = THEME_KEY -> Some("light")
       [] OTHER -> None]

\* what a page load finds in the store: nothing, or what an earlier visit left
InitialStores ==
  {Store(None, None, None)} \cup
  {Store(Some("t1"), sid, msgs) :
     sid \in {None, Some("s1")}, msgs \in {None, Some(StoredLog)}}

\* the state once the providers are constructed over store ls
Loaded(ls) ==
  /\ localStorage = ls
  /\ apiCache = EmptyCache
  /\ toasts = <<>>
  /\ location = "/"
  /\ requests = <<>>
  /\ calls = <<>>
  /\ auth = authInitialState(ls)
  /\ session = sessionInitialState(ls)
  /\ chat = [getInitialState(ls) EXCEPT !.sessionId = getSessionId(ls)]
  /\ now = 1
  /\ checkExpiration = None
  /\ ghost = [log0 |-> chat.messages,   \* the message log at the start
              token0 |-> getToken(ls),  \* the credential found at the start
              cleared |-> FALSE,        \* clearHistory has been called
              overlapped |-> FALSE,     \* a send began while one was pending
              expired |-> FALSE,        \* the periodic check cleared a session
              returned |-> EmptyCache]  \* key -> <<body>> last returned by a
                                        \* cacheable GET, until deleted or cleared
  /\ lastOp = [name |-> "start", arg |-> None]

Init == \E ls \in InitialStores : Loaded(ls)

\* the providers as constructed over store ls, before any effect has run
Constructed(ls) ==
  [ls |-> ls, cache |-> EmptyCache, toasts |-> <<>>, location |-> "/",
   requests |-> <<>>, calls |-> <<>>,
   auth |-> authInitialState(ls),
   session |-> sessionInitialState(ls),
   chat |-> getInitialState(ls),
   ghost |-> [log0 |-> getInitialState(ls).messages,
              token0 |-> getToken(ls), cleared |-> FALSE,
              overlapped |-> FALSE, expired |-> FALSE,
              returned |-> EmptyCache],
   timer |-> None,
   deps |-> [user |-> TRUE, expiresAt |-> TRUE]]

\* the first render's effects: those of the inner providers, then verifyToken
Mount(W) == VerifyTokenEffect(Effects(W))

\* the program starts in state W
Started(W) ==
  /\ now = 1
  /\ localStorage = W.ls
  /\ apiCache = W.cache
  /\ toasts = W.toasts
  /\ location = W.location
  /\ requests = W.requests
  /\ calls = W.calls
  /\ auth = W.auth
  /\ session = W.session
  /\ chat = W.chat
  /\ ghost = W.ghost
  /\ checkExpiration = W.timer
  /\ lastOp = [name |-> "start", arg |-> None]

\* the page just loaded over store ls: the mount effects have run
Mounted(ls) == Started(Mount(Constructed(ls)))

-----------------------------------------------------------------------------
(* Actions *)

\* a provider call that ends in state W, within the bounds of the model; a
\* call that returned at its guard is recorded in lastOp
Step(W, returned, name, arg) ==
  /\ Len(W.requests) <= MaxReq
  /\ Len(W.calls) <= MaxCalls
  /\ Apply(Effects(W))
  /\ lastOp' = IF returned THEN [name |-> name, arg |-> arg] ELSE lastOp
  /\ now' = now

Get(url, params, useCache) ==
  Step(ApiGet(State, url, params, useCache, "api"), FALSE, "get", None)

Post(url) ==
  Step(ApiPost(State, url, None, "api"), FALSE, "post", None)

SendMessage(query) ==
  Step(sendMessage(State, query), ~SendGuard(State, query), "sendMessage", query)

SetCurrentQuery(query) ==
  Step(setCurrentQuery(State, query), FALSE, "setCurrentQuery", query)

ClearHistory ==
  Step(clearHistory(State), FALSE, "clearHistory", None)

Login(credentials) ==
  Step(login(State, credentials), FALSE, "login", credentials)

Logout ==
  Step(logout(State), FALSE, "logout", None)

Signup(credentials) ==
  Step(signup(State, credentials), FALSE, "signup", credentials)

\* a response arrives and is handled
Respond(W) ==
  /\ Len(W.requests) <= MaxReq
  /\ Apply(Effects(W))
  /\ UNCHANGED <<now, lastOp>>

RespondOk(r) ==
  /\ r \in InFlight
  /\ \E data \in ResponseBodies(requests[r]) :
       Respond(OnResponse(State, r, 200, data))

RespondUnauthorized(r) ==
  /\ r \in InFlight
  /\ Respond(OnResponse(State, r, 401, None))

RespondError(r, status, data) ==
  /\ r \in InFlight
  /\ data # None => status = 400
  /\ Respond(OnResponse(State, r, status, data))

NetworkError(r) ==
  /\ r \in InFlight
  /\ Respond(OnResponse(State, r, NoResponse, None))

AddFile(file) ==
  Step(addFile(State, file), auth.user = None, "addFile", <<file.name>>)

RemoveFile(fileId) ==
  Step(removeFile(State, fileId), FALSE, "removeFile", None)

AddWebSource(url) ==
  Step(addWebSource(State, url), auth.user = None, "addWebSource", <<url>>)

RemoveWebSource(url) ==
  Step(removeWebSource(State, url), FALSE, "removeWebSource", None)

AddYouTubeSource(url) ==
  Step(addYouTubeSource(State, url), auth.user = None, "addYouTubeSource", <<url>>)

RemoveYouTubeSource(url) ==
  Step(removeYouTubeSource(State, url), FALSE, "removeYouTubeSource", None)

UpdatePreferences(preferences) ==
  Step(updatePreferences(State, preferences), FALSE, "updatePreferences", None)

\* a response comes later than the call that asked for it
Elapsed(r) ==
  r \in InFlight /\
  (requests[r].kind = "call" => now > calls[requests[r].call].at)

RefreshSession ==
  Step(refreshSession(State), auth.user = None, "refreshSession", None)

ClearSession ==
  Step(clearSession(State), FALSE, "clearSession", None)

\* the interval fires: the callback runs and the interval is set for its
\* next period, unless the callback's render replaced or cleared it
CheckExpiration ==
  /\ checkExpiration # None
  /\ now >= checkExpiration[1]
  /\ Apply(Effects([checkExpirationCallback(State)
                      EXCEPT !.timer = Some(checkExpiration[1] + CheckInterval)]))
  /\ UNCHANGED <<now, lastOp>>

\* time passes; an interval that is due fires before more time passes
Tick ==
  /\ now < MaxTime
  /\ checkExpiration # None => now < checkExpiration[1]
  /\ now' = now + 1
  /\ UNCHANGED <<localStorage, apiCache, toasts, location, requests, calls,
                 auth, session, chat, checkExpiration, ghost, lastOp>>

-----------------------------------------------------------------------------
(* Specifications *)

\* the gateway used directly, with login and logout changing the credential
InitGateway ==
  \E ls \in {Store(None, None, None), Store(Some("t1"), Some("s1"), None)} :
    Loaded(ls)

NextGateway ==
  \/ \E useCache \in BOOLEAN : Get(AdminStatsUrl, NoParams, useCache)
  \/ \E credentials \in Credentials : Login(credentials)
  \/ Logout
  \/ \E r \in 1..MaxReq : RespondOk(r)
  \/ \E r \in 1..MaxReq : RespondUnauthorized(r)
  \/ \E r \in 1..MaxReq, status \in ErrorStatuses, data \in ErrorBodies :
       RespondError(r, status, data)
  \/ \E r \in 1..MaxReq : NetworkError(r)

SpecGateway == InitGateway /\ [][NextGateway]_vars

\* the gateway's cache: reads and writes of three paths
InitCache == Loaded(Store(Some("t1"), Some("s1"), None))

NextCache ==
  \/ \E url \in ApiUrls, params \in Params, useCache \in BOOLEAN :
       Get(url, params, useCache)
  \/ \E url \in ApiUrls : Post(url)
  \/ \E r \in 1..MaxReq : RespondOk(r)
  \/ \E r \in 1..MaxReq : RespondUnauthorized(r)
  \/ \E r \in 1..MaxReq : RespondError(r, 500, None)

SpecCache == InitCache /\ [][NextCache]_vars

\* the conversation state machine over the gateway
InitChat == Init

NextChat ==
  \/ \E query \in Queries : SendMessage(query)
  \/ SetCurrentQuery(<<"d", "r", "a", "f", "t">>)
  \/ ClearHistory
  \/ \E r \in 1..MaxReq : RespondOk(r)
  \/ \E r \in 1..MaxReq : RespondUnauthorized(r)
  \/ \E r \in 1..MaxReq : RespondError(r, 500, None)
  \/ \E r \in 1..MaxReq : NetworkError(r)

SpecChat == InitChat /\ [][NextChat]_vars

\* the side panel: files, sources, preferences, and the message log cleared
InitSources ==
  \E ls \in {Store(None, None, None),
              Store(Some("t1"), Some("s1"), Some(StoredLog))} : Loaded(ls)

NextSources ==
  \/ \E file \in Files : AddFile(file)
  \/ \E i \in 1..MaxCalls : i <= Len(chat.files) /\ RemoveFile(chat.files[i].id)
  \/ \E url \in SourceUrls : AddWebSource(url)
  \/ \E url \in SourceUrls : RemoveWebSource(url)
  \/ AddYouTubeSource("https://y")
  \/ RemoveYouTubeSource("https://y")
  \/ \E preferences \in Partials : UpdatePreferences(preferences)
  \/ SendMessage(<<" ", "h", "i">>)
  \/ ClearHistory
  \/ (now < MaxPanelTime /\ Tick)
  \/ \E r \in 1..MaxReq : Elapsed(r) /\ RespondOk(r)
  \/ \E r \in 1..MaxReq : Elapsed(r) /\ RespondError(r, 500, None)

SpecSources == InitSources /\ [][NextSources]_vars

\* the session manager from page load on
InitSession ==
  \E ls \in {Store(Some("t1"), None, None), Store(Some("t1"), Some("s1"), None)} :
    Mounted(ls)

NextSession ==
  \/ RefreshSession
  \/ ClearSession
  \/ Logout
  \/ CheckExpiration
  \/ Tick
  \/ \E r \in 1..MaxReq : Elapsed(r) /\ RespondOk(r)
  \/ \E r \in 1..MaxReq : Elapsed(r) /\ RespondError(r, 500, None)
  \/ \E r \in 1..MaxReq : Elapsed(r) /\ RespondUnauthorized(r)

SpecSession == InitSession /\ [][NextSession]_vars

\* the auth provider from page load on, with and without a stored credential
InitAuth ==
  \E ls \in {Store(None, None, None), Store(Some("t1"), Some("s1"), None)} :
    Mounted(ls)

NextAuth ==
  \/ \E credentials \in Credentials : Login(credentials)
  \/ \E credentials \in SignupCredentials : Signup(credentials)
  \/ Logout
  \/ Tick
  \/ \E r \in 1..MaxReq : Elapsed(r) /\ RespondOk(r)
  \/ \E r \in 1..MaxReq : Elapsed(r) /\ RespondUnauthorized(r)
  \/ \E r \in 1..MaxReq : Elapsed(r) /\ RespondError(r, 500, None)
  \/ \E r \in 1..MaxReq : Elapsed(r) /\ NetworkError(r)

SpecAuth == InitAuth /\ [][NextAuth]_vars

\* a protected page loaded with a stored credential, with and without a
\* stored session id
InitRoute ==
  \E ls \in {Store(Some("t1"), None, None), Store(Some("t1"), Some("s1"), None)} :
    Started(Mount([Constructed(ls) EXCEPT !.location = ProtectedPath]))

NextRoute ==
  \/ ClearSession
  \/ CheckExpiration
  \/ Tick
  \/ \E r \in 1..MaxReq : Elapsed(r) /\ RespondOk(r)
  \/ \E r \in 1..MaxReq : Elapsed(r) /\ RespondError(r, 500, None)

SpecRoute == InitRoute /\ [][NextRoute]_vars

\* a link of the page is followed: the providers sit above the router
Navigate(path) ==
  Step([State EXCEPT !.location = path], FALSE, "navigate", path)

\* the response of request r arrives, whatever it is
Settle(r) ==
  \/ RespondOk(r)
  \/ RespondUnauthorized(r)
  \/ RespondError(r, 500, None)

\* sends with everything that might get in their way while they are pending
InitPending == Loaded(Store(Some("t1"), Some("s1"), None))

NextPending ==
  \/ SendMessage(<<" ", "h", "i">>)
  \/ ClearHistory
  \/ Logout
  \/ \E path \in {"/", "/login"} : Navigate(path)
  \/ \E r \in 1..MaxReq : Settle(r)

\* every request handed to the network is answered in the end: weak
\* fairness of Settle(r), written out (Settle(r) is enabled exactly while r
\* is in flight, and a Settle(r) step ends that)
SpecPending ==
  /\ InitPending /\ [][NextPending]_vars
  /\ \A r \in 1..MaxReq : []<>(r \notin InFlight)

\* one browser tab used by two users in turn: logout, login, questions
InitIdentity == Loaded(Store(Some("t1"), Some("s1"), None))

NextIdentity ==
  \/ SendMessage(<<" ", "h", "i">>)
  \/ Logout
  \/ \E credentials \in Credentials : Login(credentials)
  \/ \E r \in 1..MaxReq : RespondOk(r)
  \/ \E r \in 1..MaxReq : RespondError(r, 500, None)

SpecIdentity == InitIdentity /\ [][NextIdentity]_vars

Next ==
  \/ NextGateway \/ NextCache \/ NextChat \/ NextSources \/ NextSession
  \/ NextAuth \/ NextRoute \/ NextPending \/ NextIdentity

Spec == Init /\ [][Next]_vars

-----------------------------------------------------------------------------
(* Properties: helpers *)

ReqIds == 1..Len(requests)
CallIds == 1..Len(calls)

\* the request a send belongs to: a retry is a send of what it retries
RECURSIVE Origin(_)
Origin(r) == IF requests[r].kind = "retry" THEN Origin(requests[r].cause) ELSE r

SendsOf(r) == {x \in ReqIds : Origin(x) = r}

VerificationsOf(r) ==
  {v \in ReqIds : requests[v].kind = "verify" /\ requests[v].cause = r}

RetriesOf(r) ==
  {t \in ReqIds : requests[t].kind = "retry" /\ requests[t].cause = r}

CallerFailedWith(r, status) ==
  requests[r].kind = "call" =>
    /\ calls[requests[r].call].result # None
    /\ ~calls[requests[r].call].result[1].ok
    /\ calls[requests[r].call].result[1].value = status

IdentityCleared ==
  /\ localStorage[TOKEN_KEY] = None
  /\ localStorage[USER_KEY] = None
  /\ localStorage[SESSION_KEY] = None

IdentityKeys == {TOKEN_KEY, USER_KEY, SESSION_KEY}

-----------------------------------------------------------------------------
(* C1: when a request is answered 401, the verification call succeeds and
   the retried request succeeds, the caller of the original request receives
   the body of the retry, not the 401 failure. *)
C1_CallerReceivesRetryOutcome ==
  \A c \in CallIds : \A t \in ReqIds :
    (/\ calls[c].req # 0
     /\ requests[t].kind = "retry"
     /\ requests[t].cause = calls[c].req
     /\ requests[t].state = "ok")
    => /\ calls[c].result # None
       /\ calls[c].result[1].ok
       /\ calls[c].result[1].value = requests[t].data[1]

(* C2: for one caller request the gateway sends that request at most twice
   in total, whatever the retry is answered. *)
C2_AtMostTwoSends ==
  \A c \in CallIds :
    calls[c].req # 0 => Cardinality(SendsOf(calls[c].req)) <= 2

(* C3: when a request is answered 401 and the verification fails, or no
   credential is stored, then the persisted credential, user and session id
   and the whole cache are cleared and the page is sent to /login in that
   turn; the request is never sent again (a retry exists only after a
   successful verification) and its caller has failed with the 401. *)
RefreshFails(r) ==
  \/ /\ requests[r].state = "inflight"
     /\ requests'[r].status = 401
     /\ getToken(localStorage) = None
  \/ /\ requests[r].status = 401
     /\ \E v \in VerificationsOf(r) :
          requests[v].state = "inflight" /\ requests'[v].state = "err"

RetryOnlyAfterVerification ==
  \A t \in ReqIds :
    requests[t].kind = "retry" =>
      \E v \in VerificationsOf(requests[t].cause) : requests[v].state = "ok"

C3_RefreshFailureClears ==
  /\ [](RetryOnlyAfterVerification
        /\ \A r \in ReqIds : requests[r].status = 401 => CallerFailedWith(r, 401))
  /\ [][\A r \in ReqIds :
          RefreshFails(r) =>
            /\ IdentityCleared'
            /\ apiCache' = EmptyCache
            /\ location' = "/login"
            /\ RetriesOf(r)' = {}]_vars

C3_Witness ==
  \E r \in ReqIds :
    /\ requests[r].kind = "call" /\ requests[r].status = 401
    /\ \E v \in VerificationsOf(r) : requests[v].state = "err"
    /\ \E c \in CallIds : calls[c].useCache /\ calls[c].result # None
                          /\ calls[c].result[1].ok /\ c # requests[r].call
    /\ IdentityCleared /\ apiCache = EmptyCache /\ location = "/login"

(* C4: a caller's request answered 403, 400, 500 or another non-401 error
   status, or not answered at all, is sent once only (no verification call
   and no retry), surfaces exactly one notice, leaves the persisted identity
   and the cache as they were, and fails the caller. *)
C4_OtherErrorsFailOnce ==
  /\ [](\A r \in ReqIds :
          (requests[r].kind = "call" /\ requests[r].state = "err"
           /\ requests[r].status # 401)
          => /\ SendsOf(r) = {r}
             /\ VerificationsOf(r) = {}
             /\ CallerFailedWith(r, requests[r].status))
  /\ [][\A r \in ReqIds :
          (/\ requests[r].kind = "call"
           /\ requests[r].state = "inflight"
           /\ requests'[r].state = "err"
           /\ requests'[r].status # 401)
          => /\ Len(requests') = Len(requests)
             /\ Len(toasts') = Len(toasts) + 1
             /\ toasts'[Len(toasts')].req = r
             /\ SubSeq(toasts', 1, Len(toasts)) = toasts
             /\ \A k \in IdentityKeys : localStorage'[k] = localStorage[k]
             /\ apiCache' = apiCache]_vars

C4_Witness ==
  /\ \E r \in ReqIds : requests[r].kind = "call" /\ requests[r].state = "err"
                        /\ requests[r].status = 403
  /\ Len(toasts) = 1
  /\ DOMAIN apiCache # {}
  /\ localStorage[TOKEN_KEY] # None

(* C5: every request put on the network carries the credential that is
   persisted at the moment it is sent, whenever one is persisted then. *)
C5_BearerIsStoredCredential ==
  \A r \in ReqIds :
    requests[r].stored # None => requests[r].auth = requests[r].stored

C5_Witness ==
  \E t \in ReqIds :
    /\ requests[t].kind = "retry"
    /\ requests[t].stored # None
    /\ requests[requests[t].cause].stored # None
    /\ requests[t].stored # requests[requests[t].cause].stored


-----------------------------------------------------------------------------
(* Response cache *)

\* the call a step has just made, and whether it went to the network
NewCall == calls'[Len(calls')]
Issued == Len(requests') = Len(requests) + 1
PostReturns(c) ==
  /\ calls[c].fn = "post" /\ calls[c].result = None
  /\ calls'[c].result # None /\ calls'[c].result[1].ok

\* C6: a cacheable GET whose path and params were those of a cacheable GET
\* that has returned successfully, with no delete or clear of the cache since
\* (ghost.returned holds the body returned), issues no network call and
\* returns the body the earlier call received.
C6_SecondGetServedFromCache ==
  [][\A url \in ApiUrls, params \in Params :
       (/\ Get(url, params, TRUE)
        /\ <<url, params>> \in DOMAIN ghost.returned)
       => /\ requests' = requests
          /\ NewCall.result =
               Some([ok |-> TRUE, value |-> ghost.returned[<<url, params>>][1]])]_vars

\* C7 as stated: when a POST to /v1/chat/query returns, the cache holds no
\* entry under that path's key, and a cacheable GET of the path whose key is
\* absent issues a network call; when a POST to any other path returns, every
\* cache entry is as it was.
C7_OnlyChatQueryInvalidates ==
  /\ [][\A c \in CallIds : PostReturns(c) =>
          IF calls[c].url = ChatQueryUrl
          THEN <<ChatQueryUrl, NoParams>> \notin DOMAIN apiCache'
          ELSE apiCache' = apiCache]_vars
  /\ [][(/\ Get(ChatQueryUrl, NoParams, TRUE)
         /\ <<ChatQueryUrl, NoParams>> \notin DOMAIN apiCache) => Issued]_vars

\* the paths of the model that contain '/chat/query'
ChatQueryPaths == {ChatQueryUrl, ChatQueryFeedbackUrl}

\* C7 (amended): when a POST to a path containing '/chat/query' returns
\* successfully, the entry under that path's parameterless key is gone and
\* every other entry is as it was; a cacheable GET without params of such a
\* path whose key is absent issues a network call for that path; when a POST
\* to a path not containing '/chat/query' returns successfully, every cache
\* entry is as it was.
C7_ChatQueryPathsInvalidateOwnKey ==
  /\ [][\A c \in CallIds : PostReturns(c) =>
          IF calls[c].url \in ChatQueryPaths
          THEN apiCache' = [k \in DOMAIN apiCache \ {<<calls[c].url, NoParams>>}
                              |-> apiCache[k]]
          ELSE apiCache' = apiCache]_vars
  /\ [][\A url \in ChatQueryPaths :
          (/\ Get(url, NoParams, TRUE)
           /\ <<url, NoParams>> \notin DOMAIN apiCache)
          => /\ Issued
             /\ requests'[Len(requests')].url = url
             /\ requests'[Len(requests')].method = "GET"]_vars

\* a cacheable GET of /v1/chat/query returned a body and stored it, then a
\* POST to the path returned, and the entry is gone
C7_Witness ==
  /\ \E g \in CallIds, p \in CallIds :
       /\ calls[g].fn = "get" /\ calls[g].useCache
       /\ calls[g].url = ChatQueryUrl /\ calls[g].params = NoParams
       /\ calls[g].result # None /\ calls[g].result[1].ok
       /\ calls[p].fn = "post" /\ calls[p].url = ChatQueryUrl
       /\ calls[p].result # None /\ calls[p].result[1].ok
  /\ <<ChatQueryUrl, NoParams>> \notin DOMAIN apiCache
  /\ toasts = <<>>


-----------------------------------------------------------------------------
(* Conversation log *)

\* what the claims say of a message: role, content, metadata
Proj(m) == [role |-> m.role, content |-> m.content, metadata |-> m.metadata]
Projected(ms) == [i \in 1..Len(ms) |-> Proj(ms[i])]

SendIds == {c \in CallIds : calls[c].op = "sendMessage"}
Pending(c) == calls[c].result = None
Succeeded(c) == calls[c].result # None /\ calls[c].result[1].ok
Failed(c) == calls[c].result # None /\ ~calls[c].result[1].ok

\* the query a send call carried to the backend
QueryOf(c) == requests[calls[c].req].body[1].query

UserEntry(c) == [role |-> "user", content |-> QueryOf(c), metadata |-> None]

AnswerEntry(c) ==
  LET response == calls[c].result[1].value
  IN [role |-> "assistant", content |-> response.answer,
      metadata |-> Some([confidence |-> response.confidence,
                         citations |-> response.citations,
                         used_chunk_ids |-> response.used_chunk_ids,
                         retrieval_trace |-> response.retrieval_trace,
                         trace_id |-> response.trace_id,
                         latency_ms |-> response.latency_ms,
                         warnings |-> response.warnings])]

FailureEntry ==
  [role |-> "assistant",
   content |-> "Sorry, I encountered an error processing your request. Please try again.",
   metadata |-> None]

\* the sends were issued one after the other and the log was not cleared
Sequential == ~ghost.cleared /\ ~ghost.overlapped

\* user and assistant message of each of the first n calls, in call order
RECURSIVE Exchanges(_)
Exchanges(n) ==
  IF n = 0 THEN <<>>
  ELSE Exchanges(n - 1) \o
       (IF n \in SendIds THEN <<UserEntry(n), AnswerEntry(n)>> ELSE <<>>)

\* C8: N sendMessage calls that passed the guard, were issued one after the
\* other and all succeeded have grown the start log by exactly 2N entries:
\* per call, in call order, the user message with the query and the assistant
\* message with the answer and metadata of that call's response.
C8_SuccessfulSendsAppendPairs ==
  (Sequential /\ \A c \in SendIds : Succeeded(c))
  => /\ Len(chat.messages) = Len(ghost.log0) + 2 * Cardinality(SendIds)
     /\ Projected(chat.messages) = Projected(ghost.log0) \o Exchanges(Len(calls))

\* two sends after one another onto a stored log, answered differently
C8_Witness ==
  /\ Sequential
  /\ ghost.log0 # <<>>
  /\ Cardinality(SendIds) = 2
  /\ \A c \in SendIds : Succeeded(c)
  /\ \E c, d \in SendIds : calls[c].result[1].value # calls[d].result[1].value

\* user message and what followed it, for each of the first n calls
RECURSIVE Outcomes(_)
Outcomes(n) ==
  IF n = 0 THEN <<>>
  ELSE Outcomes(n - 1) \o
       (CASE n \notin SendIds -> <<>>
          [] Pending(n) -> <<UserEntry(n)>>
          [] Succeeded(n) -> <<UserEntry(n), AnswerEntry(n)>>
          [] OTHER -> <<UserEntry(n), FailureEntry>>)

\* the requests this layer issued for call c
IssuedFor(c) == {r \in ReqIds : requests[r].kind = "call" /\ requests[r].call = c}

\* C9: a sendMessage call that passed the guard and whose request failed has
\* grown the log by exactly two entries, the user message and one assistant
\* message with the generic failure text (stated over sequential sends, each
\* contributing its own entries in call order); it issued its request once;
\* and the turn in which it settles leaves isLoading false.
C9_FailedSendAppendsFailureText ==
  /\ [](/\ Sequential =>
             Projected(chat.messages) = Projected(ghost.log0) \o Outcomes(Len(calls))
        /\ \A c \in SendIds : Cardinality(IssuedFor(c)) = 1)
  /\ [][\A c \in SendIds :
          (Pending(c) /\ calls'[c].result # None /\ ~calls'[c].result[1].ok)
          => /\ chat'.isLoading = FALSE
             /\ Len(chat'.messages) = Len(chat.messages) + 1]_vars

\* a send failed with no response and one failed with 401, both settled
C9_Witness ==
  /\ Sequential
  /\ \E c, d \in SendIds :
       /\ Failed(c) /\ calls[c].result[1].value = NoResponse
       /\ Failed(d) /\ calls[d].result[1].value = 401
  /\ Len(chat.messages) = Len(ghost.log0) + 4
  /\ ~chat.isLoading

\* an empty or whitespace-only query
Blank(query) == \A i \in 1..Len(query) : query[i] = " "

\* C10: sendMessage with a blank query, or without a user, or without a
\* session id, issues no network call and leaves the conversation state, and
\* everything else the program holds, as it was.
C10_GuardedSendIsNoOp ==
  [][\A query \in Queries :
       (/\ SendMessage(query)
        /\ (Blank(query) \/ auth.user = None \/ session.sessionId = None))
       => UNCHANGED <<chat, requests, calls, localStorage, apiCache, toasts,
                      location, auth, session>>]_vars

\* a whitespace-only query was sent with user and session held, a draft in
\* the input and an earlier exchange in the log
C10_Witness ==
  /\ lastOp = [name |-> "sendMessage", arg |-> <<" ", " ">>]
  /\ auth.user # None /\ session.sessionId # None
  /\ chat.currentQuery # <<>>
  /\ chat.messages # <<>>


-----------------------------------------------------------------------------
(* Side panel: sources, files, preferences, history *)

NoDuplicates(list) ==
  \A i, j \in 1..Len(list) : list[i] = list[j] => i = j

\* C11: in every reachable state neither webSources nor youtubeSources
\* holds the same string twice.
C11_SourcesAreDeduplicated ==
  NoDuplicates(chat.webSources) /\ NoDuplicates(chat.youtubeSources)

\* addWebSource was called twice with one url, which the list holds
C11_Witness ==
  \E c, d \in CallIds :
    /\ c # d
    /\ calls[c].op = "addWebSource" /\ calls[d].op = "addWebSource"
    /\ calls[c].env[1].url = calls[d].env[1].url
    /\ chat.webSources = <<calls[c].env[1].url>>

AddFileIds == {c \in CallIds : calls[c].op = "addFile"}
TempId(c) == calls[c].env[1].newFile.id

\* C12: once an addFile whose upload failed has settled, the entry under its
\* temporary id is absent or has status error; it is not left uploading.
C12_FailedUploadNotLeftUploading ==
  \A c \in AddFileIds :
    Failed(c) =>
      \A i \in 1..Len(chat.files) :
        chat.files[i].id = TempId(c) => chat.files[i].status = "error"

\* an upload failed and its entry is marked error, while another upload made
\* in the same millisecond (same temporary id) is still pending
C12_Witness ==
  \E c, d \in AddFileIds :
    /\ c # d /\ TempId(c) = TempId(d)
    /\ Failed(c) /\ Pending(d)
    /\ \E i \in 1..Len(chat.files) :
         chat.files[i].id = TempId(c) /\ chat.files[i].status = "error"

PreferenceKeys ==
  {"response_style", "max_length", "domain", "model_name", "allow_agentic"}

\* reading a field of a preferences object
Field(preferences, k) ==
  IF k \in DOMAIN preferences THEN preferences[k] ELSE "undefined"

\* C13: after updatePreferences(p) the in-memory preferences are the
\* previous record with the fields of p overwritten and the others as they
\* were, the persisted preferences read field by field as the in-memory ones,
\* and no network call was issued.
C13_PreferencesMergedAndPersisted ==
  [][\A p \in Partials :
       UpdatePreferences(p) =>
         /\ DOMAIN chat'.preferences = PreferenceKeys
         /\ \A k \in PreferenceKeys :
              chat'.preferences[k] =
                IF k \in DOMAIN p THEN p[k] ELSE chat.preferences[k]
         /\ getPreferences(localStorage') # None
         /\ \A k \in PreferenceKeys :
              Field(getPreferences(localStorage')[1], k) = chat'.preferences[k]
         /\ requests' = requests]_vars

\* both partial records were applied, the second over the first, and the
\* store holds the result without the undefined field
C13_Witness ==
  /\ chat.preferences.domain = "ai"
  /\ chat.preferences.allow_agentic
  /\ chat.preferences.max_length = 500
  /\ chat.preferences.model_name = "undefined"
  /\ chat.preferences.response_style = "concise"
  /\ getPreferences(localStorage) # None
  /\ "model_name" \notin DOMAIN getPreferences(localStorage)[1]

\* C14: clearHistory leaves the in-memory log empty and the persisted history
\* absent, and leaves the session id, the preferences in memory and in the
\* store, the file list, both source lists and isLoading as they were.
C14_ClearHistoryFrame ==
  [][ClearHistory =>
       /\ chat'.messages = <<>>
       /\ getMessages(localStorage') = None
       /\ session' = session
       /\ chat'.sessionId = chat.sessionId
       /\ getSessionId(localStorage') = getSessionId(localStorage)
       /\ chat'.preferences = chat.preferences
       /\ getPreferences(localStorage') = getPreferences(localStorage)
       /\ chat'.files = chat.files
       /\ chat'.webSources = chat.webSources
       /\ chat'.youtubeSources = chat.youtubeSources
       /\ chat'.isLoading = chat.isLoading]_vars

\* the history was cleared while a send was pending, with a file in the
\* list, a stored session id and stored preferences
C14_Witness ==
  /\ ghost.cleared
  /\ ghost.log0 # <<>>
  /\ chat.messages = <<>>
  /\ getMessages(localStorage) = None
  /\ chat.isLoading
  /\ chat.files # <<>>
  /\ getSessionId(localStorage) # None
  /\ getPreferences(localStorage) # None

-----------------------------------------------------------------------------
(* Session manager *)

\* a session is held whose expiry date has passed
Expired ==
  /\ session.sessionId # None
  /\ session.expiresAt # None
  /\ now >= session.expiresAt[1]

SessionCleared ==
  /\ session.sessionId = None
  /\ session.expiresAt = None
  /\ getSessionId(localStorage) = None

\* an expired session has a firing of the check due, less than one check
\* interval after its expires_at, and the clock has not gone beyond it
CheckIsDue ==
  Expired =>
    /\ checkExpiration # None
    /\ now <= checkExpiration[1]
    /\ checkExpiration[1] - session.expiresAt[1] < CheckInterval

\* C15: whenever a session is held whose expires_at has passed, the next
\* firing of the periodic check comes less than one check interval after
\* expires_at; that firing leaves the in-memory session id and expires_at
\* null and the persisted session id removed, and it sends no request. (No
\* start state has an expires_at, so every state with one is entered by a
\* step.)
C15_ExpiredSessionClearedByCheck ==
  [][/\ CheckIsDue'
     /\ Expired /\ CheckExpiration => SessionCleared' /\ requests' = requests]_vars

\* the periodic check has cleared an expired session
C15_Witness ==
  /\ ghost.expired
  /\ SessionCleared
  /\ \E c \in CallIds : calls[c].op = "createSession" /\ Succeeded(c)

\* the createSession calls whose backend call fails in this step
FailingCreates ==
  {c \in CallIds : /\ calls[c].op = "createSession"
                    /\ calls[c].result = None
                    /\ calls'[c].result # None
                    /\ ~calls'[c].result[1].ok}

\* C16 as stated: after a failed createSession no session id is held in
\* memory, isLoading is false and the error went to the caller, also when a
\* session was held.
C16_FailedCreateEndsInNoSession ==
  [][\A c \in FailingCreates :
       /\ session'.sessionId = None
       /\ ~session'.isLoading
       /\ calls'[c].outcome = Some("rejected")]_vars

\* C16: after a failed createSession isLoading is false, the session id and
\* expires_at held in memory are the ones held before the failure (so the
\* manager is in NoSession exactly when no session was held), the persisted
\* session id is untouched by createSession, and the error went to the caller.
C16_FailedCreateKeepsSession ==
  [][\A c \in FailingCreates :
       /\ ~session'.isLoading
       /\ session'.sessionId = session.sessionId
       /\ session'.expiresAt = session.expiresAt
       /\ calls'[c].outcome = Some("rejected")]_vars

\* a createSession run through refreshSession failed while a session was held
C16_Witness ==
  \E c \in CallIds :
    /\ calls[c].op = "createSession"
    /\ calls[c].env = Some([via |-> "refreshSession"])
    /\ Failed(c)
    /\ calls[c].outcome = Some("rejected")
    /\ session.sessionId # None
    /\ ~session.isLoading

-----------------------------------------------------------------------------
(* Auth provider *)

\* the calls of the functions in ops whose backend call settles in this step
Settling(ops) ==
  {c \in CallIds : /\ calls[c].op \in ops
                    /\ calls[c].result = None
                    /\ calls'[c].result # None}

LoggedOut ==
  [user |-> None, token |-> None, isAuthenticated |-> FALSE, isLoading |-> FALSE]

LoggedIn(user, token) ==
  [user |-> Some(user), token |-> Some(token), isAuthenticated |-> TRUE,
   isLoading |-> FALSE]

\* C17: when the backend call of login or signup succeeds, the token and the
\* user of the response are in the store and the auth state is LoggedIn with
\* exactly that token and user; when it fails, the auth state is LoggedOut
\* (no user, no token, isAuthenticated false, isLoading false) and the
\* caller's promise is rejected.
C17_LoginAndSignupSettle ==
  [][\A c \in Settling({"login", "signup"}) :
       LET result == calls'[c].result[1]
           user == [user_id |-> result.value.user_id,
                    username |-> result.value.username]
       IN IF result.ok
          THEN /\ getToken(localStorage') = Some(result.value.token)
               /\ getUser(localStorage') = Some(user)
               /\ auth' = LoggedIn(user, result.value.token)
               /\ calls'[c].outcome = Some("fulfilled")
          ELSE /\ auth' = LoggedOut
               /\ calls'[c].outcome = Some("rejected")]_vars

\* one of login and signup failed and then the other succeeded
C17_Witness ==
  \E c \in CallIds, d \in CallIds :
    /\ c < d
    /\ {calls[c].op, calls[d].op} = {"login", "signup"}
    /\ Failed(c) /\ calls[c].outcome = Some("rejected")
    /\ Succeeded(d) /\ calls[d].outcome = Some("fulfilled")
    /\ auth = LoggedIn([user_id |-> calls[d].result[1].value.user_id,
                        username |-> calls[d].result[1].value.username],
                       calls[d].result[1].value.token)
    /\ getToken(localStorage) = auth.token

VerifyIds == {c \in CallIds : calls[c].op = "verifyToken"}

\* a page loaded over a stored credential has made one call of the
\* verification endpoint, and one loaded without a credential has made none
VerifiedAtStart ==
  IF ghost.token0 = None THEN VerifyIds = {}
  ELSE /\ Cardinality(VerifyIds) = 1
       /\ \A c \in VerifyIds :
            /\ calls[c].at = 1
            /\ calls[c].req # 0
            /\ requests[calls[c].req].method = "GET"
            /\ requests[calls[c].req].url = AuthMeUrl
            /\ requests[calls[c].req].auth = ghost.token0

\* C18: a page loaded over a stored credential calls the verification
\* endpoint, once, and one loaded without a credential never calls it on
\* its own; when the verification succeeds the auth state is LoggedIn with
\* the user the endpoint returned, and when it fails the credential, user
\* and session keys are absent from the store and the auth state is
\* LoggedOut; in both cases isLoading is false.
C18_StartupVerification ==
  [][/\ VerifiedAtStart
     /\ VerifiedAtStart'
     /\ \A c \in Settling({"verifyToken"}) :
          IF calls'[c].result[1].ok
          THEN /\ auth'.isAuthenticated
               /\ auth'.user = Some(calls'[c].result[1].value)
               /\ auth'.token # None
               /\ ~auth'.isLoading
          ELSE /\ IdentityCleared'
               /\ auth' = LoggedOut]_vars

\* the page was loaded over a stored credential and the verification failed
C18_Witness ==
  /\ ghost.token0 # None
  /\ \E c \in VerifyIds : Failed(c)
  /\ IdentityCleared
  /\ auth = LoggedOut
  /\ \A c \in CallIds : calls[c].op = "verifyToken"

\* C19: logout, from any state, sends no request and leaves the credential,
\* the user and the session id absent from the store and the auth state
\* LoggedOut (user null, token null, isAuthenticated false).
C19_LogoutClearsIdentity ==
  [][Logout => /\ requests' = requests
               /\ calls' = calls
               /\ IdentityCleared'
               /\ auth' = LoggedOut]_vars

\* a verified user with a stored session id has logged out: nothing failed,
\* so nothing but logout has emptied the store
C19_Witness ==
  /\ \E c \in VerifyIds : Succeeded(c)
  /\ \A r \in ReqIds : requests[r].state # "err"
  /\ session.sessionId # None
  /\ IdentityCleared
  /\ auth = LoggedOut

-----------------------------------------------------------------------------
(* Ordering within sendMessage *)

Last(ms) == ms[Len(ms)]

\* ms is old with one message appended at its end
Appended(old, ms) ==
  /\ Len(ms) = Len(old) + 1
  /\ SubSeq(ms, 1, Len(old)) = old

\* C20: in the turn in which a sendMessage call issues its request, the log
\* the request went out on is the log before the call with the user message
\* appended at its end, and nothing more is appended in that turn; the
\* assistant message, or the failure message in its place, is appended at the
\* end of the log in the turn in which that request settles, and in no other;
\* every other turn leaves the log as it is or empties it (clearHistory), so
\* the log is in the order of the appends.
C20_SendMessageOrdering ==
  [][LET issued == SendIds' \ SendIds
         settled == Settling({"sendMessage"})
     IN /\ \A c \in issued :
             LET log == requests'[calls'[c].req].log
             IN /\ Appended(chat.messages, log)
                /\ Proj(Last(log)) = UserEntry(c)'
                /\ chat'.messages = log
                /\ Pending(c)'
        /\ \A c \in settled :
             /\ requests'[calls[c].req].state # "inflight"
             /\ Appended(chat.messages, chat'.messages)
             /\ Proj(Last(chat'.messages)) =
                  IF calls'[c].result[1].ok THEN AnswerEntry(c)' ELSE FailureEntry
        /\ (issued = {} /\ settled = {}) =>
             chat'.messages \in {chat.messages, <<>>}]_vars

\* two sends overlapped; the second was answered, then the first failed
C20_Witness ==
  /\ ~ghost.cleared
  /\ \E c \in SendIds, d \in SendIds :
       /\ c < d
       /\ Failed(c) /\ Succeeded(d)
       /\ Projected(chat.messages) =
            Projected(ghost.log0) \o
            <<UserEntry(c), UserEntry(d), AnswerEntry(d), FailureEntry>>

-----------------------------------------------------------------------------
(* Source registration and file upload *)

\* the calls of the functions in ops that are made in this step
NewCalls(ops) ==
  {c \in 1..Len(calls') : c > Len(calls) /\ calls'[c].op \in ops}

SourceOps == {"addWebSource", "addYouTubeSource"}

\* in chat state ch, the list a registration function works on, and the
\* other one
SourceList(ch, op) ==
  IF op = "addWebSource" THEN ch.webSources ELSE ch.youtubeSources

OtherList(ch, op) ==
  IF op = "addWebSource" THEN ch.youtubeSources ELSE ch.webSources

\* C21 as stated: addWebSource(u) / addYouTubeSource(u) called while u is in
\* the list issues no registration call, and u is in the list after such a
\* call has settled, whatever the answer.
C21_DuplicateAddIsNoOp ==
  [][/\ \A c \in NewCalls(SourceOps) : ~calls'[c].env[1].dup
     /\ \A c \in Settling(SourceOps) :
          calls[c].env[1].dup =>
            ArrayIncludes(SourceList(chat', calls[c].op), calls[c].env[1].url)]_vars

C23_UploadReplacesTemporaryEntry ==
  [][/\ \A c \in NewCalls({"addFile"}) :
          LET newFile == calls'[c].env[1].newFile
              f == requests'[calls'[c].req].body[1].file
          IN /\ requests'[calls'[c].req].list = Append(chat.files, newFile)
             /\ chat'.files = Append(chat.files, newFile)
             /\ newFile.id = <<"file", now>>
             /\ newFile.status = "uploading"
             /\ newFile.name = f.name /\ newFile.size = f.size
     /\ \A c \in Settling({"addFile"}) :
          LET f == requests[calls[c].req].body[1].file
          IN calls'[c].result[1].ok =>
               /\ \A i \in 1..Len(chat'.files) : chat'.files[i].id # TempId(c)
               /\ \E i \in 1..Len(chat'.files) :
                    /\ chat'.files[i].id = calls'[c].result[1].value.document_id
                    /\ chat'.files[i].status = "complete"
                    /\ chat'.files[i].name = f.name
                    /\ chat'.files[i].size = f.size]_vars

\* two files were uploaded and both are listed as complete under server ids
C23_Witness ==
  /\ Len(chat.files) = 2
  /\ \A i \in 1..2 : chat.files[i].status = "complete" /\ chat.files[i].id \in DocumentIds
  /\ chat.files[1].name # chat.files[2].name
  /\ \A c \in AddFileIds : Succeeded(c)

-----------------------------------------------------------------------------
(* Session expiry and identity *)

\* the periodic check and clearSession leave the auth state and the
\* persisted credential and user as they are
SessionClearKeepsIdentity ==
  (CheckExpiration \/ ClearSession) =>
    /\ auth' = auth
    /\ getToken(localStorage') = getToken(localStorage)
    /\ getUser(localStorage') = getUser(localStorage)

\* the clear-and-redirect block of the gateway's 401 handler ran in this step
GatewayGaveUp ==
  /\ \E i \in 1..Len(toasts') :
       i > Len(toasts) /\ toasts'[i].text = SessionExpiredText
  /\ location' = "/login"

-----------------------------------------------------------------------------
(* Session creation triggers *)

\* the /session/create requests in flight for user id u
CreatesInFlight(u) ==
  {r \in InFlight : /\ requests[r].url = SessionCreateUrl
                     /\ requests[r].kind = "call"
                     /\ requests[r].body[1].user_id = u}

\* C25 as stated: at no time are two /session/create requests in flight for
\* one user, the Session Manager's own trigger and the protected route's
\* counted together.
C25_OneCreateInFlight ==
  \A u \in {x.user_id : x \in Users} : Cardinality(CreatesInFlight(u)) <= 1

-----------------------------------------------------------------------------
(* Concurrent 401 answers *)

\* the request issued last
Newest(reqs) == reqs[Len(reqs)]

-----------------------------------------------------------------------------
(* Persisted message history *)

\* C27: a message history present in the store is the in-memory log as JSON
\* writes it (a Date as its ISO string), in every state; and every step that
\* appends to the log (user message, answer or failure text) leaves the
\* history present in the store.
C27_PersistedLogEqualsMemory ==
  /\ [](getMessages(localStorage) # None =>
          getMessages(localStorage) = Some(JsonMessages(chat.messages)))
  /\ [][Len(chat'.messages) > Len(chat.messages) =>
          getMessages(localStorage') = Some(JsonMessages(chat'.messages))]_vars

\* the store was emptied by the gateway's clear-and-redirect while the log
\* was kept in memory, and a later append has written the whole log again:
\* question, answer and failure text
C27_Witness ==
  /\ location = "/login"
  /\ getMessages(localStorage) # None
  /\ \E i, j, k \in 1..Len(chat.messages) :
       /\ chat.messages[i].role = "user"
       /\ chat.messages[j].role = "assistant" /\ chat.messages[j].metadata # None
       /\ chat.messages[k].content = ErrorContent

-----------------------------------------------------------------------------
(* The request of sendMessage *)

\* the contents of the assistant-role messages of a log, in log order
AssistantContents(log) ==
  LET assistant == SelectSeq(log, LAMBDA m : m.role = "assistant")
  IN [i \in 1..Len(assistant) |-> assistant[i].content]

\* C28: the request a sendMessage call issues is a POST to the chat path
\* whose body carries the query as given, the id of the authenticated user,
\* the session id held when the call was made, the preferences of that
\* moment, and as conversation_history the contents, in log order, of the
\* assistant-role messages of the log the request went out on, whether or
\* not another send is pending.
C28_RequestCarriesState ==
  [][\A c \in SendIds' \ SendIds :
       LET r == requests'[calls'[c].req]
           b == r.body[1]
       IN /\ r.method = "POST" /\ r.url = ChatQueryUrl
          /\ \E query \in Queries : SendMessage(query) /\ b.query = query
          /\ b.user_id = auth.user[1].user_id
          /\ b.session_id = session.sessionId[1]
          /\ b.preferences = chat.preferences
          /\ b.conversation_history = AssistantContents(r.log)
          /\ r.log = chat'.messages]_vars

\* a send made after an earlier one failed: its history holds the stored
\* answer and the failure text, and none of the three user messages
C28_Witness ==
  \E c \in SendIds :
    LET r == requests[calls[c].req]
    IN /\ Len(r.body[1].conversation_history) = 2
       /\ r.body[1].conversation_history[2] = ErrorContent
       /\ Len(r.log) = 5
       /\ r.log[5].role = "user"

-----------------------------------------------------------------------------
(* Pending sends *)

NoSendPending == \A c \in SendIds : ~Pending(c)

\* C29: provided every request is answered, every sendMessage call that
\* issued its request settles; the turn in which it settles appends exactly
\* one message, of role assistant, to the log and nothing else; isLoading is
\* false whenever no send is pending, and a true isLoading leads to a false
\* one; clearHistory, logout and navigation in between change none of this.
C29_PendingSendResolves ==
  /\ \A c \in 1..MaxCalls :
       (c \in SendIds /\ Pending(c)) ~> (c \in SendIds /\ ~Pending(c))
  /\ chat.isLoading ~> ~chat.isLoading
  /\ [](NoSendPending => ~chat.isLoading)
  /\ [][\A c \in Settling({"sendMessage"}) :
          /\ Appended(chat.messages, chat'.messages)
          /\ Last(chat'.messages).role = "assistant"
          /\ ~chat'.isLoading]_vars

\* a send was pending while the user cleared the history, logged out and
\* left the page; it has settled since and its message is in the log
C29_Witness ==
  /\ ghost.cleared
  /\ auth.user = None
  /\ location = "/login"
  /\ toasts = <<>>
  /\ NoSendPending /\ SendIds # {}
  /\ Len(chat.messages) = 1
  /\ chat.messages[1].role = "assistant"
  /\ chat.messages[1].metadata # None

-----------------------------------------------------------------------------
(* Logout and the response cache *)

\* C30 as stated: a step of logout() leaves the response cache empty (so
\* that a cacheable GET made afterwards finds no entry and goes to the
\* network).
C30_LogoutEmptiesCache ==
  [][Logout => apiCache' = EmptyCache]_vars

-----------------------------------------------------------------------------
(* Sessions and users *)

\* session id sid was minted for user id u: it was stored next to u's
\* credential at the start, or a /session/create request for u returned it
MintedFor(sid, u) ==
  \/ /\ ghost.token0 # None
     /\ u = UserOf(ghost.token0[1]).user_id
     /\ sid = "s1"
  \/ \E r \in ReqIds :
       /\ requests[r].url = SessionCreateUrl /\ requests[r].state = "ok"
       /\ requests[r].body[1].user_id = u
       /\ requests[r].data[1].session_id = sid

\* C31 as stated: every chat query carries a session id minted for the user
\* whose id it carries, the user authenticated when it was sent; so after a
\* logout and a login as another user no query goes out with the session id
\* of the user before.
C31_QueryCarriesOwnSession ==
  \A r \in ReqIds :
    (requests[r].url = ChatQueryUrl /\ requests[r].kind = "call") =>
      MintedFor(requests[r].body[1].session_id, requests[r].body[1].user_id)

\* C39 as stated: a step of logout() leaves the in-memory log empty (so that
\* the history a later append writes holds only messages appended after the
\* logout).
C39_LogoutDropsLog ==
  [][Logout => chat'.messages = <<>>]_vars

-----------------------------------------------------------------------------
(* Overlapping sends *)

\* the requests of sendMessage calls that are in flight
SendsInFlight ==
  {r \in InFlight : /\ requests[r].kind = "call"
                     /\ calls[requests[r].call].op = "sendMessage"}

\* C32 as stated: isLoading is true in every state in which a request of a
\* sendMessage call is in flight.
C32_LoadingWhileSending ==
  SendsInFlight # {} => chat.isLoading

\* C33 as stated: in every state each assistant-role message of the log
\* stands directly after a user message (the one of its own sendMessage
\* call; already "a user message" fails).
C33_AnswerFollowsItsQuestion ==
  \A i \in 1..Len(chat.messages) :
    chat.messages[i].role = "assistant" =>
      i > 1 /\ chat.messages[i - 1].role = "user"

\* C33: the log is in insertion order: the turn in which a sendMessage call
\* settles appends its assistant-role message at the end of the log as it
\* is then; the message stands directly after the user message of its own
\* call when the log is still the one the request went out on (no other
\* send and no clearHistory in between).
C33_AnswerAppendedAtEnd ==
  [][\A c \in Settling({"sendMessage"}) :
       /\ Appended(chat.messages, chat'.messages)
       /\ Last(chat'.messages).role = "assistant"
       /\ requests[calls[c].req].log = chat.messages =>
            Proj(chat'.messages[Len(chat'.messages) - 1]) = UserEntry(c)]_vars

\* two sends overlapped with no clearHistory: the later one was answered
\* with the log still as its request left it, and the answer of the earlier
\* one was appended after that
C33_Witness ==
  /\ ghost.overlapped /\ ~ghost.cleared
  /\ \E c, d \in SendIds :
       /\ c # d /\ Succeeded(c) /\ Succeeded(d)
       /\ LET n == Len(chat.messages)
          IN /\ n >= 4
             /\ Proj(chat.messages[n - 2]) = UserEntry(d)
             /\ Proj(chat.messages[n - 1]) = AnswerEntry(d)
             /\ Proj(chat.messages[n]) = AnswerEntry(c)

-----------------------------------------------------------------------------
(* Held sessions and their expiry *)

\* C34 as stated: whenever a session id is held, an expires_at is held with
\* it and the periodic check is running.
C34_HeldSessionHasExpiry ==
  session.sessionId # None =>
    (session.expiresAt # None /\ checkExpiration # None)

-----------------------------------------------------------------------------
(* Credential in memory and in the store *)

AuthOps == {"login", "signup", "verifyToken"}

AuthCallPending ==
  \E c \in CallIds : calls[c].op \in AuthOps /\ calls[c].result = None

\* C35 as stated: whenever no login, signup or startup verification is in
\* flight, the credential held in memory is the persisted one (both absent
\* or both the same token).
C35_CredentialAgreesWithStore ==
  ~AuthCallPending => auth.token = getToken(localStorage)

-----------------------------------------------------------------------------
(* Files removed while their upload is in flight *)

\* the temporary entry of upload c is gone from the list, and only
\* removeFile can have taken it (no other upload got the same temporary id)
RemovedWhileUploading(c) ==
  /\ \A i \in 1..Len(chat.files) : chat.files[i].id # calls[c].env[1].newFile.id
  /\ \A d \in CallIds \ {c} :
       calls[d].op = "addFile" =>
         calls[d].env[1].newFile.id # calls[c].env[1].newFile.id

\* C36 as stated: when an upload settles whose entry the user removed while
\* it was in flight, no entry comes back: the file list stays as it is.
C36_RemovedFileStaysRemoved ==
  [][\A c \in Settling({"addFile"}) :
       RemovedWhileUploading(c) => chat'.files = chat.files]_vars

-----------------------------------------------------------------------------
(* The handling of one 401 *)

\* the request whose 401 a verification call belongs to, through the
\* verification calls started for verification calls
RECURSIVE Unauthorized(_)
Unauthorized(x) ==
  IF requests[x].kind = "verify" THEN Unauthorized(requests[x].cause) ELSE x

\* C37 as stated: the handling of one request answered 401 issues one
\* verification call and, when the verification fails, shows one 'session
\* expired' notice, whatever the verification is answered.
C37_OneVerificationPerUnauthorized ==
  \A r \in ReqIds :
    (requests[r].kind # "verify" /\ requests[r].status = 401) =>
      /\ Cardinality({v \in ReqIds : /\ requests[v].kind = "verify"
                                      /\ Unauthorized(v) = r}) <= 1
      /\ Cardinality({i \in 1..Len(toasts) :
                        /\ toasts[i].text = SessionExpiredText
                        /\ Unauthorized(toasts[i].req) = r}) <= 1

-----------------------------------------------------------------------------
(* Logged in before verification *)

AuthCallSucceeded ==
  \E c \in CallIds : calls[c].op \in AuthOps /\ Succeeded(c)

\* C38 as stated: the auth state is authenticated only when a login, signup
\* or verification call has succeeded, and no session creation request is
\* issued before one has.
C38_LoggedInOnlyAfterSuccess ==
  /\ auth.isAuthenticated => AuthCallSucceeded
  /\ (\E r \in ReqIds : requests[r].url = SessionCreateUrl) => AuthCallSucceeded

====
